---- MODULE Spec2Model ----
(***************************************************************************)
(* Model of the Motofix driver client's session cache: the useAuth hook    *)
(* (src/src/hooks/useAuth.ts), the axios interceptors of the API clients   *)
(* (src/src/config/api.ts) and the reverse-geocoding throttle              *)
(* (src/unnamed/part_004).                                                 *)
(*                                                                         *)
(* The browser runs one task at a time: every action below is one task     *)
(* (an event handler, a timer callback or the delivery of an HTTP answer)  *)
(* together with the promise continuations it triggers.  The remote        *)
(* services are opaque: an answer is any element of Outcomes.              *)
(***************************************************************************)
EXTENDS Integers, Sequences, FiniteSets, TLC

VARIABLES
    storage,                 \* localStorage: key -> value, NULL when absent
    user,                    \* useState<User | null>
    isLoading,               \* useState(true)
    isAuthenticated,         \* useState(false)
    authCheckInProgressRef,  \* useRef(false)
    mounted,                 \* has the mount effect of the hook run
    inflight,                \* requests sent through authApi / requestsApi
    timers,                  \* pending setTimeout(resolve, 2000) of checkAuth
    location,                \* window.location / router path
    reloadPending,           \* window.location.href was assigned
    now,                     \* Date.now()
    lastRequestTime,         \* module variable of the geocoding throttle
    geoWaiting,              \* reverseGeocode calls waiting in throttle()
    geoStarts,               \* start timestamps of the outbound geocoding calls
    geoOpen,                 \* fetches of reverseGeocode that wait for an answer
    geoSettled,              \* the reverseGeocode call that settled last
    tickCalls,               \* checkAuth calls made in the current task
    tickSent,                \* /auth/me requests sent in the current task
    ev,                      \* what the last task did (observation only)
    routing,                 \* is the router (App.tsx) part of the run
    page,                    \* the page component that is mounted
    filesMade,               \* File objects made so far
    issue,                   \* CreateRequest: useState('')
    formLocation,            \* CreateRequest: location, useState('')
    formLoading,             \* CreateRequest: isLoading, useState(false)
    mediaFiles,              \* CreateRequest: useState([])
    isRecording,             \* CreateRequest: useState(false)
    mediaRecorderRef,        \* CreateRequest: useRef(null)
    micPending,              \* startRecording calls waiting for getUserMedia
    onstopQueue,             \* stopped recorders whose onstop has not run yet
    kept,                    \* attachments added and not removed (observation)
    requests,                \* Home: useState([])
    previousStatusesRef,     \* Home: useRef(new Map())
    toasts,                  \* Home: the toasts of the last fetchRequests
    serverRequests,          \* the requests service: the driver's requests
    apiOpen,                 \* calls to the requests service that are open
    lastCall,                \* the call to the requests service this step made
    friendlyAddress,         \* CreateRequest: useState(null)
    addressStatus,           \* CreateRequest: useState('idle')
    addressTimer,            \* CreateRequest: the pending setTimeout(..., 1000)
    addressOpen,             \* CreateRequest: its open reverseGeocode calls
    cardLocation,            \* RequestCard: request.location
    displayLocation,         \* RequestCard: useState(request.location)
    geocodeStatus,           \* RequestCard: useState('idle')
    cardOpen,                \* RequestCard: its open reverseGeocode calls
    lastLookup,              \* the lookup whose answer this step handled
    loginPhone,              \* Login: phone, useState('')
    step,                    \* Login: useState('phone')
    loginLoading,            \* Login: isLoading, useState(false)
    otpOpen,                 \* Login: the sendOtp call that waits for its answer
    lastOtp,                 \* the phone this step sent to /auth/send-otp
    stored,                  \* the number handleSendOtp put into the field
    loggedOutFor             \* ms since another tab logged out, NULL before

vars == <<storage, user, isLoading, isAuthenticated, authCheckInProgressRef,
          mounted, inflight, timers, location, reloadPending, now,
          lastRequestTime, geoWaiting, geoStarts, geoOpen, geoSettled,
          tickCalls, tickSent, ev, routing, page, filesMade, issue, formLocation,
          formLoading, mediaFiles, isRecording, mediaRecorderRef, micPending,
          onstopQueue, kept, requests, previousStatusesRef, toasts,
          serverRequests, apiOpen, lastCall, friendlyAddress, addressStatus,
          addressTimer, addressOpen, cardLocation, displayLocation,
          geocodeStatus, cardOpen, lastLookup, loginPhone, step,
          loginLoading,
          otpOpen, lastOtp, stored, loggedOutFor>>

authVars == <<storage, user, isLoading, isAuthenticated,
              authCheckInProgressRef, mounted, inflight, timers, location,
              reloadPending, tickCalls, tickSent, ev, routing>>

geoVars == <<lastRequestTime, geoWaiting, geoStarts, geoOpen, geoSettled>>

formVars == <<issue, formLocation, formLoading, mediaFiles, isRecording,
              mediaRecorderRef, micPending, onstopQueue, kept>>

homeVars == <<requests, previousStatusesRef, toasts>>

serviceVars == <<serverRequests, apiOpen, lastCall>>

formAddressVars ==
    <<friendlyAddress, addressStatus, addressTimer, addressOpen>>

cardVars == <<cardLocation, displayLocation, geocodeStatus, cardOpen>>

addressVars == <<formAddressVars, cardVars, lastLookup>>

loginVars == <<loginPhone, step, loginLoading, otpOpen, lastOtp, stored>>

pageVars == <<page, filesMade, formVars, homeVars, serviceVars, addressVars,
              loginVars>>

tabVars == <<loggedOutFor>>

-----------------------------------------------------------------------------
(* Bounds of the model *)

MaxTime == 5000
MaxInFlight == 1
MaxCallsPerTask == 2
MaxChecks == 2
MaxGeoCalls == 3

(* Time advances in steps of TickMs while the session is observed and in   *)
(* steps of GeoTickMs while the geocoding throttle is observed             *)
TickMs == 2000
GeoTickMs == 500

-----------------------------------------------------------------------------
(* Program constants *)

STORAGE_TOKEN_KEY == "motofix_token"
STORAGE_USER_KEY == "motofix_user"
STORAGE_LAST_AUTH_CHECK == "motofix_last_auth_check"

StorageKeys == {STORAGE_TOKEN_KEY, STORAGE_USER_KEY, STORAGE_LAST_AUTH_CHECK}

maxRetries == 2
RETRY_DELAY_MS == 2000
MIN_INTERVAL_MS == 1000

(* getItem returns null for an absent key *)
NULL == <<>>

(* Date.now().toString(): the program writes this value and never reads it *)
TIMESTAMP == <<"Date.now()">>

-----------------------------------------------------------------------------
(* Values *)

Phones == {"+256700000000", "+256700000001"}

(* interface User { id?, phone, full_name?, role } *)
UserOf(phone) ==
    [id |-> IF phone = "+256700000000" THEN "1" ELSE "2",
     phone |-> phone, full_name |-> "Driver", role |-> "driver"]

Users == {UserOf(p) : p \in Phones}

(* the token the login endpoint issues for a phone *)
TokenOf(phone) == IF phone = "+256700000000" THEN "jwt-a" ELSE "jwt-b"

(* JSON.stringify of a user record: the text of its four fields *)
Stringify(u) == <<"{", u.id, u.phone, u.full_name, u.role, "}">>

(* A stored value that is not the JSON text of an object *)
CORRUPT == <<"{", "not json">>

(* JSON.parse succeeds exactly on well-formed text *)
ParseOk(s) == Len(s) = 6 /\ s[1] = "{" /\ s[6] = "}"

Parse(s) == [id |-> s[2], phone |-> s[3], full_name |-> s[4], role |-> s[5]]

(* A state value of type User | null is <<>> (null) or <<u>> *)
Some(u) == <<u>>

(* Answers of the remote services: a 2xx answer, a 401, a 5xx answer, a    *)
(* timeout (error.code = ECONNABORTED) and an unreachable network          *)
(* (error.message = "Network Error").                                      *)
Outcomes == {"ok", "401", "500", "timeout", "network"}

(* error.response?.status; 0 when the error carries no response *)
StatusOf(outcome) ==
    CASE outcome = "ok" -> 200
      [] outcome = "401" -> 401
      [] outcome = "500" -> 500
      [] OTHER -> 0

NoPre == [isAuthenticated |-> FALSE, user |-> NULL, session |-> FALSE]

NoSeen == [token |-> NULL, user |-> NULL, nav |-> FALSE]

(* ev: the handler that ran last, the status of the answer it handled, the  *)
(* endpoint, what the caller's catch found when it started (seen), the     *)
(* user record a successful answer carried, which is what login returns    *)
(* to its caller (returned), the error login threw to its caller, named by *)
(* its status (thrown), and the requests that went out (wire)              *)
NoEv == [op |-> "init", status |-> 0, url |-> "", seen |-> NoSeen,
         returned |-> NULL, thrown |-> NULL, wire |-> <<>>]

-----------------------------------------------------------------------------
(* App.tsx: the routes, and what the element of the current route does    *)
(* with the state of its own useAuth()                                     *)

ProtectedRoutes == {"/requests", "/create-request", "/profile"}

Routes == {"/", "/login"} \cup ProtectedRoutes

(* components/PrivateRoute, as listed in PERSISTENT_LOGIN_CODE_EXAMPLES.md *)
PrivateRoute(loading, authenticated) ==
    IF loading THEN "spinner"
    ELSE IF ~authenticated THEN "Navigate"
    ELSE "children"

(* the path the router is at once the element of s.location has rendered   *)
(* and its effects have run: PrivateRoute, the effect of Login, Index      *)
Router(s) ==
    IF s.location \in ProtectedRoutes
    THEN IF PrivateRoute(s.isLoading, s.isAuthenticated) = "Navigate"
         THEN "/login" ELSE s.location
    ELSE IF s.location = "/login"
    THEN IF ~s.isLoading /\ s.isAuthenticated
         THEN "/requests" ELSE s.location
    ELSE IF s.isLoading THEN s.location
    ELSE IF s.isAuthenticated THEN "/create-request" ELSE "/login"

(* requests and timers whose hook instance is gone: their continuations    *)
(* still run (nothing cancels them), the state they set is shown nowhere   *)
Unmounted(pending) == {[r EXCEPT !.live = FALSE] : r \in pending}

(* a route change inside the page: the element of the old route unmounts,  *)
(* the element of the new route starts with a useAuth() of its own         *)
Remount(s, path) ==
    [s EXCEPT !.location = path, !.user = NULL, !.isLoading = TRUE,
              !.isAuthenticated = FALSE, !.ref = FALSE, !.mounted = FALSE,
              !.inflight = Unmounted(@), !.timers = Unmounted(@)]

(* what a continuation of an unmounted hook instance leaves behind: its    *)
(* effects outside the hook (storage, requests, timers, window.location)   *)
Orphan(s, after) ==
    [after EXCEPT !.user = s.user, !.isLoading = s.isLoading,
                  !.isAuthenticated = s.isAuthenticated, !.ref = s.ref,
                  !.inflight = (after.inflight \cap s.inflight)
                               \cup Unmounted(after.inflight \ s.inflight),
                  !.timers = (after.timers \cap s.timers)
                             \cup Unmounted(after.timers \ s.timers)]

-----------------------------------------------------------------------------
(* The state the handlers work on, as one record *)

Cur ==
    [storage |-> storage, user |-> user, isLoading |-> isLoading,
     isAuthenticated |-> isAuthenticated, ref |-> authCheckInProgressRef,
     inflight |-> inflight, timers |-> timers, location |-> location,
     reloadPending |-> reloadPending, mounted |-> mounted, sent |-> 0,
     wire |-> <<>>, thrown |-> NULL]

(* the state after the handler, and after the render that follows it *)
Rendered(s) ==
    IF ~routing \/ s.reloadPending THEN s
    ELSE IF s.location # location THEN Remount(s, s.location)
    ELSE IF Router(s) # s.location THEN Remount(s, Router(s))
    ELSE s

(* the element of a protected route shows its page *)
ShowsPage(s) ==
    /\ s.location \in ProtectedRoutes
    /\ PrivateRoute(s.isLoading, s.isAuthenticated) = "children"

Commit(s) ==
    LET r == Rendered(s) IN
    /\ storage' = r.storage
    /\ user' = r.user
    /\ isLoading' = r.isLoading
    /\ isAuthenticated' = r.isAuthenticated
    /\ authCheckInProgressRef' = r.ref
    /\ mounted' = r.mounted
    /\ inflight' = r.inflight
    /\ timers' = r.timers
    /\ location' = r.location
    /\ reloadPending' = r.reloadPending
    /\ routing' = routing

setItem(s, key, value) == [s EXCEPT !.storage[key] = value]

removeItem(s, key) == [s EXCEPT !.storage[key] = NULL]

(* A cached session: a token and the JSON text of a user record *)
HasSession(st) ==
    /\ st[STORAGE_TOKEN_KEY] # NULL
    /\ st[STORAGE_USER_KEY] # NULL
    /\ ParseOk(st[STORAGE_USER_KEY])

(* What a caller's catch finds when it starts to run *)
Seen(s) ==
    [token |-> s.storage[STORAGE_TOKEN_KEY],
     user |-> s.storage[STORAGE_USER_KEY], nav |-> s.reloadPending]

(* The snapshot a top-level checkAuth call starts from *)
Snapshot(s) ==
    [isAuthenticated |-> s.isAuthenticated, user |-> s.user,
     session |-> HasSession(s.storage)]

-----------------------------------------------------------------------------
(* config/api.ts: the interceptors *)


(* an interceptor that writes the header whether or not a token is stored *)
AuthorizationHeader_Always(s) ==
    IF s.storage[STORAGE_TOKEN_KEY] # NULL
    THEN <<"Bearer", s.storage[STORAGE_TOKEN_KEY][1]>>
    ELSE <<"Bearer", "null">>

(* request interceptor: the Authorization header of an outbound request *)
AuthorizationHeader(s) ==
    IF s.storage[STORAGE_TOKEN_KEY] # NULL
    THEN <<"Bearer", s.storage[STORAGE_TOKEN_KEY][1]>>
    ELSE NULL

(* a call that waits for its answer: the endpoint and what its             *)
(* continuation holds (retryCount and the snapshot for checkAuth, the      *)
(* phone for login)                                                        *)
Request(url, retryCount, phone, pre) ==
    [url |-> url, retryCount |-> retryCount, phone |-> phone, pre |-> pre,
     live |-> TRUE]

(* the model keeps at most MaxInFlight requests other than /auth/me open *)
CanSend(s) ==
    Cardinality({r \in s.inflight : r.url # "/auth/me"}) < MaxInFlight

(* the request goes out with the header the request interceptor gives it *)
Send(s, req) ==
    [s EXCEPT !.inflight = @ \cup {req},
              !.wire = Append(@, [url |-> req.url,
                                  authorization |-> AuthorizationHeader(s)])]


(* an interceptor that treats every HTTP error answer as a 401 *)
ResponseInterceptor_AnyStatus(s, status) ==
    IF status >= 400
    THEN [removeItem(removeItem(s, STORAGE_TOKEN_KEY), STORAGE_USER_KEY)
            EXCEPT !.location = "/login", !.reloadPending = TRUE]
    ELSE s

(* an interceptor that drops the token and forgets the user record *)
ResponseInterceptor_TokenOnly(s, status) ==
    IF status = 401
    THEN [removeItem(s, STORAGE_TOKEN_KEY)
            EXCEPT !.location = "/login", !.reloadPending = TRUE]
    ELSE s

(* an interceptor that clears the session and does not navigate *)
ResponseInterceptor_NoRedirect(s, status) ==
    IF status = 401
    THEN removeItem(removeItem(s, STORAGE_TOKEN_KEY), STORAGE_USER_KEY)
    ELSE s

(* response interceptor, error branch *)
ResponseInterceptor(s, status) ==
    IF status = 401
    THEN [removeItem(removeItem(s, STORAGE_TOKEN_KEY), STORAGE_USER_KEY)
            EXCEPT !.location = "/login", !.reloadPending = TRUE]
    ELSE s

-----------------------------------------------------------------------------
(* hooks/useAuth.ts: checkAuth *)

(* finally { setIsLoading(false); authCheckInProgressRef.current = false } *)
(* a finally that leaves the guard set *)
Finally_KeepGuard(s) == [s EXCEPT !.isLoading = FALSE]

Finally(s) == [s EXCEPT !.isLoading = FALSE, !.ref = FALSE]


(* a checkAuth that signs the driver in from the cached record when the    *)
(* token is missing                                                        *)
checkAuth_CachedUser(s, retryCount, pre) ==
    IF s.ref
    THEN s
    ELSE LET s1 == [s EXCEPT !.ref = TRUE]
             storedUser == s.storage[STORAGE_USER_KEY] IN
         IF s1.storage[STORAGE_TOKEN_KEY] = NULL
         THEN IF storedUser # NULL /\ ParseOk(storedUser)
              THEN Finally([s1 EXCEPT !.isAuthenticated = TRUE,
                                      !.user = Some(Parse(storedUser))])
              ELSE Finally([s1 EXCEPT !.isAuthenticated = FALSE,
                                      !.user = NULL])
         ELSE [Send(s1, Request("/auth/me", retryCount, "", pre))
                 EXCEPT !.sent = @ + 1]

(* a checkAuth that asks the server without looking for a token first *)
checkAuth_NoTokenTest(s, retryCount, pre) ==
    IF s.ref
    THEN s
    ELSE [Send([s EXCEPT !.ref = TRUE],
               Request("/auth/me", retryCount, "", pre))
            EXCEPT !.sent = @ + 1]

(* checkAuth without the in-progress guard *)
checkAuth_NoGuard(s, retryCount, pre) ==
    LET s1 == [s EXCEPT !.ref = TRUE] IN
    IF s1.storage[STORAGE_TOKEN_KEY] = NULL
    THEN Finally([s1 EXCEPT !.isAuthenticated = FALSE, !.user = NULL])
    ELSE [Send(s1, Request("/auth/me", retryCount, "", pre))
            EXCEPT !.sent = @ + 1]

(* checkAuth up to its first await: the guard, the token test, the request *)
checkAuth(s, retryCount, pre) ==
    IF s.ref
    THEN s
    ELSE LET s1 == [s EXCEPT !.ref = TRUE] IN
         IF s1.storage[STORAGE_TOKEN_KEY] = NULL
         THEN Finally([s1 EXCEPT !.isAuthenticated = FALSE, !.user = NULL])
         ELSE [Send(s1, Request("/auth/me", retryCount, "", pre))
                 EXCEPT !.sent = @ + 1]


(* a retry condition that is off by one *)
ShouldRetry_OffByOne(outcome, retryCount) ==
    /\ outcome \in {"timeout", "network"}
    /\ retryCount <= maxRetries

(* the condition of the inner catch: retry or rethrow *)
ShouldRetry(outcome, retryCount) ==
    /\ outcome \in {"timeout", "network"}
    /\ retryCount < maxRetries


(* an outer catch that treats a 401 like any other failure *)
AuthCheckFailed_No401(s, status) ==
    LET storedUser == s.storage[STORAGE_USER_KEY] IN
    IF storedUser # NULL /\ ParseOk(storedUser)
    THEN [s EXCEPT !.user = Some(Parse(storedUser)),
                   !.isAuthenticated = TRUE]
    ELSE s

(* an outer catch that logs out on every failure *)
AuthCheckFailed_AlwaysClear(s, status) ==
    [removeItem(removeItem(s, STORAGE_TOKEN_KEY), STORAGE_USER_KEY)
       EXCEPT !.isAuthenticated = FALSE, !.user = NULL]

(* the outer catch *)
AuthCheckFailed(s, status) ==
    IF status = 401
    THEN [removeItem(removeItem(s, STORAGE_TOKEN_KEY), STORAGE_USER_KEY)
            EXCEPT !.isAuthenticated = FALSE, !.user = NULL]
    ELSE LET storedUser == s.storage[STORAGE_USER_KEY] IN
         IF storedUser # NULL /\ ParseOk(storedUser)
         THEN [s EXCEPT !.user = Some(Parse(storedUser)),
                        !.isAuthenticated = TRUE]
         ELSE s

(* a success path that updates the hook and leaves the cached record *)
AuthCheckSucceeded_NoStore(s, userData) ==
    setItem([s EXCEPT !.user = Some(userData), !.isAuthenticated = TRUE],
            STORAGE_LAST_AUTH_CHECK, TIMESTAMP)

(* the try block after authService.getMe() resolved with userData *)
AuthCheckSucceeded(s, userData) ==
    setItem(setItem([s EXCEPT !.user = Some(userData),
                              !.isAuthenticated = TRUE],
                    STORAGE_USER_KEY, Stringify(userData)),
            STORAGE_LAST_AUTH_CHECK, TIMESTAMP)

-----------------------------------------------------------------------------
(* hooks/useAuth.ts: the mount effect *)

(* a mount effect that waits for the server before it shows the driver *)
MountEffect_NoRestore(s) ==
    LET storedToken == s.storage[STORAGE_TOKEN_KEY]
        storedUser == s.storage[STORAGE_USER_KEY]
        s1 == IF storedToken # NULL /\ storedUser # NULL
              THEN s
              ELSE [s EXCEPT !.isLoading = FALSE]
    IN checkAuth(s1, 0, Snapshot(s1))

MountEffect(s) ==
    LET storedToken == s.storage[STORAGE_TOKEN_KEY]
        storedUser == s.storage[STORAGE_USER_KEY]
        s1 == IF storedToken # NULL /\ storedUser # NULL
              THEN IF ParseOk(storedUser)
                   THEN [s EXCEPT !.user = Some(Parse(storedUser)),
                                  !.isAuthenticated = TRUE]
                   ELSE removeItem(s, STORAGE_USER_KEY)
              ELSE [s EXCEPT !.isLoading = FALSE]
    IN checkAuth(s1, 0, Snapshot(s1))

Mount ==
    /\ ~mounted
    /\ LET s == MountEffect([Cur EXCEPT !.mounted = TRUE]) IN
         /\ Commit(s)
         /\ tickCalls' = 1
         /\ tickSent' = s.sent
         /\ ev' = [NoEv EXCEPT !.op = "mount", !.url = location,
                               !.wire = s.wire]
    /\ UNCHANGED <<now, geoVars, pageVars, tabVars>>

(* checkAuth() called by a component; sameTask says whether the call is    *)
(* made by the task that made the previous call                            *)
(* checkAuth calls that wait for an answer or for their retry timer *)
ChecksOpen ==
    Cardinality({r \in inflight : r.url = "/auth/me"}) + Cardinality(timers)

CheckAuthCall(sameTask) ==
    /\ mounted
    /\ ChecksOpen < MaxChecks
    /\ sameTask => tickCalls > 0
    /\ LET s == checkAuth(Cur, 0, Snapshot(Cur)) IN
         /\ Commit(s)
         /\ tickCalls' = IF sameTask THEN tickCalls + 1 ELSE 1
         /\ tickSent' = IF sameTask THEN tickSent + s.sent ELSE s.sent
         /\ ev' = [NoEv EXCEPT !.op = "checkAuth", !.wire = s.wire]
    /\ tickCalls < MaxCallsPerTask
    /\ UNCHANGED <<now, geoVars, pageVars, tabVars>>

-----------------------------------------------------------------------------
(* hooks/useAuth.ts: checkAuth after the answer to /auth/me *)

RetryTimer(r) ==
    [retryCount |-> r.retryCount, setAt |-> now, delay |-> RETRY_DELAY_MS,
     pre |-> r.pre, live |-> r.live]

(* the answer to /auth/me arrives: response interceptor, then the rest of  *)
(* checkAuth (try, inner catch, outer catch, finally)                       *)
MeAnswered(s, r, outcome, userData) ==
    IF outcome = "ok"
    THEN Finally(AuthCheckSucceeded(s, userData))
    ELSE LET s1 == ResponseInterceptor(s, StatusOf(outcome)) IN
         IF ShouldRetry(outcome, r.retryCount)
         THEN [s1 EXCEPT !.timers = @ \cup {RetryTimer(r)}]
         ELSE Finally(AuthCheckFailed(s1, StatusOf(outcome)))

MeResponse(r, outcome, userData) ==
    /\ r \in inflight
    /\ r.url = "/auth/me"
    /\ LET s0 == [Cur EXCEPT !.inflight = @ \ {r}]
           s1 == ResponseInterceptor(s0, StatusOf(outcome))
           s == IF r.live THEN MeAnswered(s0, r, outcome, userData)
                ELSE Orphan(s0, MeAnswered(s0, r, outcome, userData))
       IN /\ Commit(s)
          /\ ev' = [NoEv EXCEPT !.op = IF r.live THEN "meResponse"
                                       ELSE "meResponse unmounted",
                                !.status = StatusOf(outcome), !.url = r.url,
                                !.seen = Seen(s1),
                                !.returned = IF outcome = "ok"
                                             THEN Some(userData) ELSE NULL]
    /\ tickCalls' = 0
    /\ tickSent' = 0
    /\ UNCHANGED <<now, geoVars, pageVars, tabVars>>

(* the 2 s timer of the inner catch fires: release the guard and           *)
(* "return checkAuth(retryCount + 1)". The call runs up to its await and   *)
(* hands back its promise; the return is not an await, so the outer        *)
(* finally of this call runs at once, while the retried request is open    *)
RetryAfterDelay(s, t) ==
    Finally(checkAuth([s EXCEPT !.ref = FALSE], t.retryCount + 1, t.pre))

RetryTimerFire(t) ==
    /\ t \in timers
    /\ now >= t.setAt + t.delay
    /\ LET s0 == [Cur EXCEPT !.timers = @ \ {t}]
           s == IF t.live THEN RetryAfterDelay(s0, t)
                ELSE Orphan(s0, RetryAfterDelay(s0, t))
       IN /\ Commit(s)
          /\ ev' = [NoEv EXCEPT !.op = IF t.live THEN "retry"
                                       ELSE "retry unmounted",
                                !.wire = s.wire]
    /\ tickCalls' = 0
    /\ tickSent' = 0
    /\ UNCHANGED <<now, geoVars, pageVars, tabVars>>

-----------------------------------------------------------------------------
(* hooks/useAuth.ts: login *)

Login(phone) ==
    /\ mounted
    /\ routing => location = "/login"
    /\ CanSend(Cur)
    /\ LET s == Send(Cur, Request("/auth/login", 0, phone, NoPre)) IN
         /\ Commit(s)
         /\ ev' = [NoEv EXCEPT !.op = "login", !.url = "/auth/login",
                               !.wire = s.wire]
    /\ tickCalls' = 0
    /\ tickSent' = 0
    /\ UNCHANGED <<now, geoVars, pageVars, tabVars>>

(* login after authService.login resolved with { access_token, user } *)
LoginSucceeded(s, access_token, userData) ==
    LET s1 == IF access_token # ""
              THEN setItem(setItem(s, STORAGE_TOKEN_KEY, <<access_token>>),
                           STORAGE_LAST_AUTH_CHECK, TIMESTAMP)
              ELSE s
        s2 == setItem(s1, STORAGE_USER_KEY, Stringify(userData))
    IN [s2 EXCEPT !.user = Some(userData), !.isAuthenticated = TRUE]

(* a catch that throws an error of its own in place of the one it caught *)
LoginFailed_NewError(s, error) == [s EXCEPT !.thrown = Some(0)]

(* the catch of login: log, throw the error on *)
LoginFailed(s, error) == [s EXCEPT !.thrown = Some(error)]

(* pages/Login.tsx handleLogin after login() resolved *)
handleLogin(s) ==
    IF routing THEN [s EXCEPT !.location = "/requests"] ELSE s

(* the login endpoint answers with the record of the phone it was given    *)
(* and with a token, or (cookie-only session) without one                  *)
LoginResponse(r, outcome, access_token) ==
    /\ r \in inflight
    /\ r.url = "/auth/login"
    /\ LET s0 == [Cur EXCEPT !.inflight = @ \ {r}]
           s1 == ResponseInterceptor(s0, StatusOf(outcome))
           userData == UserOf(r.phone)
           s2 == LoginSucceeded(s0, access_token, userData)
       IN IF outcome = "ok"
          THEN /\ Commit(IF r.live THEN handleLogin(s2)
                         ELSE Orphan(s0, s2))
               /\ ev' = [NoEv EXCEPT !.op = "loginResponse",
                                     !.status = StatusOf(outcome),
                                     !.url = r.url,
                                     !.returned = Some(userData)]
          ELSE /\ Commit(LoginFailed(s1, StatusOf(outcome)))
               /\ ev' = [NoEv EXCEPT
                           !.op = "loginResponse",
                           !.status = StatusOf(outcome),
                           !.url = r.url, !.seen = Seen(s1),
                           !.thrown =
                               LoginFailed(s1, StatusOf(outcome)).thrown]
    /\ tickCalls' = 0
    /\ tickSent' = 0
    /\ UNCHANGED <<now, geoVars, pageVars, tabVars>>

-----------------------------------------------------------------------------
(* hooks/useAuth.ts: logout *)


(* a logout that sends the remote call and clears nothing but the token *)
logout_TokenOnly(s) ==
    LET s1 == removeItem(s, STORAGE_TOKEN_KEY)
        s2 == [s1 EXCEPT !.user = NULL, !.isAuthenticated = FALSE]
    IN Send(s2, Request("/auth/logout", 0, "", NoPre))

logout(s) ==
    LET s1 == removeItem(removeItem(removeItem(s, STORAGE_TOKEN_KEY),
                                    STORAGE_USER_KEY),
                         STORAGE_LAST_AUTH_CHECK)
        s2 == [s1 EXCEPT !.user = NULL, !.isAuthenticated = FALSE]
    IN Send(s2, Request("/auth/logout", 0, "", NoPre))

(* Profile (pages/Home.tsx) handleLogout after logout() *)
handleLogout(s) ==
    IF routing THEN [s EXCEPT !.location = "/login"] ELSE s

Logout ==
    /\ mounted
    /\ routing => location = "/profile" /\ ShowsPage(Cur)
    /\ CanSend(Cur)
    /\ Commit(handleLogout(logout(Cur)))
    /\ ev' = [NoEv EXCEPT !.op = "logout", !.url = "/auth/logout",
                          !.wire = logout(Cur).wire]
    /\ tickCalls' = 0
    /\ tickSent' = 0
    /\ UNCHANGED <<now, geoVars, pageVars, tabVars>>

-----------------------------------------------------------------------------
(* config/api.ts: the other calls of authService and requestsService *)

ApiUrls == {"/requests/"}

ApiRequest(url) ==
    /\ mounted
    /\ routing => ShowsPage(Cur)
    /\ CanSend(Cur)
    /\ LET s == Send(Cur, Request(url, 0, "", NoPre)) IN
         /\ Commit(s)
         /\ ev' = [NoEv EXCEPT !.op = "request", !.url = url,
                               !.wire = s.wire]
    /\ tickCalls' = 0
    /\ tickSent' = 0
    /\ UNCHANGED <<now, geoVars, pageVars, tabVars>>

(* the answer to /auth/logout or to one of ApiUrls: the response            *)
(* interceptor runs, then the caller's own then / catch                     *)
ApiResponse(r, outcome) ==
    /\ r \in inflight
    /\ r.url \in ApiUrls \cup {"/auth/logout"}
    /\ LET s0 == [Cur EXCEPT !.inflight = @ \ {r}]
           s1 == IF outcome = "ok" THEN s0
                 ELSE ResponseInterceptor(s0, StatusOf(outcome))
       IN /\ Commit(s1)
          /\ ev' = [NoEv EXCEPT !.op = "response",
                                !.status = StatusOf(outcome), !.url = r.url,
                                !.seen = IF outcome = "ok" THEN NoSeen
                                         ELSE Seen(s1)]
    /\ tickCalls' = 0
    /\ tickSent' = 0
    /\ UNCHANGED <<now, geoVars, pageVars, tabVars>>

(* window.location.href = '/login' takes effect: the page is loaded anew,  *)
(* the hook starts from its initial state, localStorage stays              *)
PageReload ==
    /\ reloadPending
    /\ user' = NULL
    /\ isLoading' = TRUE
    /\ isAuthenticated' = FALSE
    /\ authCheckInProgressRef' = FALSE
    /\ mounted' = FALSE
    /\ inflight' = {}
    /\ timers' = {}
    /\ reloadPending' = FALSE
    /\ tickCalls' = 0
    /\ tickSent' = 0
    /\ ev' = [NoEv EXCEPT !.op = "reload"]
    /\ UNCHANGED <<storage, location, now, geoVars, routing, pageVars,
                   tabVars>>

(* the driver opens a path of the app in the address bar: the page is      *)
(* loaded anew, what the old page waited for is dropped                    *)
PageLoad(path) ==
    /\ user' = NULL
    /\ isLoading' = TRUE
    /\ isAuthenticated' = FALSE
    /\ authCheckInProgressRef' = FALSE
    /\ mounted' = FALSE
    /\ inflight' = {}
    /\ timers' = {}
    /\ location' = path
    /\ reloadPending' = FALSE
    /\ tickCalls' = 0
    /\ tickSent' = 0
    /\ ev' = [NoEv EXCEPT !.op = "load", !.url = path]
    /\ UNCHANGED <<storage, now, geoVars, routing, pageVars, tabVars>>

-----------------------------------------------------------------------------
(* Time *)

Tick(ms) ==
    /\ now < MaxTime
    /\ now' = now + ms
    /\ tickCalls' = 0
    /\ tickSent' = 0
    /\ ev' = [NoEv EXCEPT !.op = "tick"]
    /\ UNCHANGED <<storage, user, isLoading, isAuthenticated,
                   authCheckInProgressRef, mounted, inflight, timers,
                   location, reloadPending, geoVars, routing, pageVars,
                   tabVars>>

(* Time passes while checkAuth waits for its retry timer (the handlers of   *)
(* the session read the clock nowhere else)                                 *)
RetryWait ==
    /\ timers # {}
    /\ Tick(TickMs)

-----------------------------------------------------------------------------
(* unnamed/part_004 (utils/geocode): the throttle of reverseGeocode *)

(* throttle(): the delay of the promise it returns, 0 when already resolved *)
throttle(t, last) ==
    IF t - last < MIN_INTERVAL_MS /\ last > 0
    THEN MIN_INTERVAL_MS - (t - last)
    ELSE 0

(* One task calls reverseGeocode n times (n components run their effect).   *)
(* Each call evaluates throttle() before any of them resumes; the calls     *)
(* whose promise is already resolved resume in the same task, set           *)
(* lastRequestTime and start their fetch; the others wait for their timer.  *)
GeoCalls(n) ==
    /\ Len(geoStarts) + Len(geoWaiting) + n <= MaxGeoCalls
    /\ LET wait == throttle(now, lastRequestTime) IN
         IF wait = 0
         THEN /\ lastRequestTime' = now
              /\ geoStarts' = geoStarts \o [i \in 1..n |-> now]
              /\ geoOpen' = geoOpen + n
              /\ UNCHANGED geoWaiting
         ELSE /\ geoWaiting' = geoWaiting \o [i \in 1..n |-> now + wait]
              /\ UNCHANGED <<lastRequestTime, geoStarts, geoOpen>>
    /\ UNCHANGED <<authVars, now, geoSettled, pageVars, tabVars>>

(* the setTimeout of a waiting call fires: lastRequestTime = Date.now(),    *)
(* then the fetch                                                           *)
GeoResume(i) ==
    /\ i \in 1..Len(geoWaiting)
    /\ now >= geoWaiting[i]
    /\ lastRequestTime' = now
    /\ geoStarts' = Append(geoStarts, now)
    /\ geoOpen' = geoOpen + 1
    /\ geoWaiting' = [j \in 1..(Len(geoWaiting) - 1) |->
                        IF j < i THEN geoWaiting[j] ELSE geoWaiting[j + 1]]
    /\ UNCHANGED <<authVars, now, geoSettled, pageVars, tabVars>>

-----------------------------------------------------------------------------
(* unnamed/part_004 (utils/geocode): reverseGeocode after its fetch, and   *)
(* the effect of RequestCard that calls it. A string is the sequence of    *)
(* its comma-separated parts, trimmed; '' is the empty sequence.           *)

(* how the fetch settles: an answer with res.ok, an answer with another    *)
(* status, no answer                                                       *)
FetchOutcomes == {"ok", "500", "network"}

NoAddress ==
    [road |-> "", suburb |-> "", neighbourhood |-> "", village |-> "",
     city |-> "", town |-> ""]

(* display_name: missing, a string, or a value of another type *)
NoName == [kind |-> "undefined", parts |-> <<>>]
Name(parts) == [kind |-> "string", parts |-> parts]
NotAString == [kind |-> "number", parts |-> <<>>]

(* the body of an answer: text that is not JSON, the JSON value null, or a *)
(* JSON object with its address (NULL when missing) and display_name       *)
Body(json, isNull, address, display_name) ==
    [json |-> json, isNull |-> isNull, address |-> address,
     display_name |-> display_name]

Bodies ==
    {Body(FALSE, FALSE, NULL, NoName),
     Body(TRUE, TRUE, NULL, NoName),
     Body(TRUE, FALSE, NULL, NoName),
     Body(TRUE, FALSE, NULL, NotAString),
     Body(TRUE, FALSE, <<NoAddress>>, NotAString),
     Body(TRUE, FALSE, NULL, Name(<<"Entebbe Road", "Kampala", "Uganda">>)),
     Body(TRUE, FALSE,
          <<[NoAddress EXCEPT !.road = "Entebbe Road",
                              !.neighbourhood = "Entebbe Road",
                              !.town = "Kampala"]>>,
          Name(<<"Shoprite", "Entebbe Road", "Kampala">>))}

(* a || b on strings *)
Or(a, b) == IF a # "" THEN a ELSE b

(* what a block of code ends with: a value, or a thrown error *)
Value(v) == [thrown |-> FALSE, value |-> v]
Thrown == [thrown |-> TRUE, value |-> NULL]

(* displayName.split(',').slice(0, 2).map(trim).join(', ') *)
FirstTwo(parts) == SubSeq(parts, 1, IF Len(parts) < 2 THEN Len(parts) ELSE 2)

formatFriendlyAddress(address, displayName) ==
    LET road == address.road
        suburb == Or(address.suburb, address.neighbourhood)
        city == Or(Or(address.city, address.town), address.village)
        parts == (IF road # "" THEN <<road>> ELSE <<>>)
                 \o (IF suburb # "" /\ suburb # road
                     THEN <<suburb>> ELSE <<>>)
                 \o (IF city # "" /\ city # suburb THEN <<city>> ELSE <<>>)
    IN IF Len(parts) > 0 THEN Value(parts)
       ELSE IF displayName.kind = "number" THEN Thrown
       ELSE IF displayName.kind = "string" /\ displayName.parts # <<>>
            THEN Value(FirstTwo(displayName.parts))
       ELSE Value(<<>>)

(* the try block of reverseGeocode from the point where fetch settles *)
GeocodeTry(outcome, body) ==
    IF outcome = "network" THEN Thrown
    ELSE IF outcome # "ok" THEN Value(NULL)
    ELSE IF ~body.json THEN Thrown
    ELSE LET address == IF body.isNull THEN NULL ELSE body.address
             displayName == IF body.isNull THEN NoName ELSE body.display_name
             friendly == IF address # NULL
                         THEN formatFriendlyAddress(address[1], displayName)
                         ELSE Value(<<>>)
         IN IF friendly.thrown THEN Thrown
            ELSE IF friendly.value # <<>> THEN friendly
            ELSE IF displayName.kind = "string" /\ displayName.parts # <<>>
                 THEN Value(FirstTwo(displayName.parts))
            ELSE Value(NULL)

(* a reverseGeocode whose try has no catch *)
reverseGeocode_NoCatch(outcome, body) ==
    LET r == GeocodeTry(outcome, body)
    IN [rejected |-> r.thrown, value |-> r.value]

(* how the promise of reverseGeocode settles: try { ... } catch { null } *)
reverseGeocode(outcome, body) ==
    LET r == GeocodeTry(outcome, body)
    IN [rejected |-> FALSE, value |-> IF r.thrown THEN NULL ELSE r.value]

FALLBACK_LABEL == <<"Near your current location">>

(* RequestCard: .then(address => ...) and .catch(...) of the call *)
DisplayLocation(result) ==
    IF ~result.rejected /\ result.value # NULL
    THEN result.value
    ELSE FALLBACK_LABEL

NotSettled ==
    [settled |-> FALSE, outcome |-> "", body |-> Body(FALSE, FALSE, NULL, NoName),
     rejected |-> FALSE, value |-> NULL, displayLocation |-> <<>>]

(* the fetch of one open call settles and the call runs to its end *)
GeoSettle(outcome, body) ==
    /\ geoOpen > 0
    /\ geoOpen' = geoOpen - 1
    /\ LET result == reverseGeocode(outcome, body) IN
         geoSettled' = [settled |-> TRUE, outcome |-> outcome, body |-> body,
                        rejected |-> result.rejected, value |-> result.value,
                        displayLocation |-> DisplayLocation(result)]
    /\ UNCHANGED <<authVars, now, lastRequestTime, geoWaiting, geoStarts,
                   pageVars, tabVars>>

-----------------------------------------------------------------------------
(* The pages that talk to the requests service: CreateRequest, Home and    *)
(* the request card                                                        *)

MaxFiles == 2
MaxRequests == 1
MaxMic == 1

Range(seq) == {seq[i] : i \in 1..Len(seq)}

(* what the driver can type into the two fields of the form *)
Texts == {"", " ", "Flat tyre"}
Places == {"", "Kampala Road"}

(* String.prototype.trim, on the texts above *)
trim(text) == IF text = " " THEN "" ELSE text

(* a File object: files are told apart by identity, not by name *)
File(type, n) == [type |-> type, id |-> n]

PickedTypes == {"application/pdf"}

RECURSIVE Files(_, _)
Files(types, n) ==
    IF types = <<>> THEN <<>>
    ELSE <<File(Head(types), n + 1)>> \o Files(Tail(types), n + 1)

Picks == {<<a>> : a \in PickedTypes} \cup {<<a, b>> : a, b \in PickedTypes}

Statuses == {"pending", "accepted", "completed"}

(* requestsService: one definition per method *)
(* url is the template of the path and id what stands for ${id} in it     *)
Call(method, url, id, media_files) ==
    [method |-> method, url |-> url, id |-> id, media_files |-> media_files,
     live |-> TRUE]

create == Call("POST", "/requests/", 0, <<>>)
createWithMedia(formData) ==
    Call("POST", "/requests-with-media/", 0, formData)
getAll == Call("GET", "/requests/", 0, <<>>)
updateStatus(id) == Call("PATCH", "/requests/${id}/status", id, <<>>)
getCallPartner_Patch(id) ==
    Call("PATCH", "/requests/${id}/status", id, <<>>)

getCallPartner(id) == Call("GET", "/requests/${id}/call-partner", id, <<>>)

(* the calls of a page that is unmounted stay open, and what they do to   *)
(* the state of that page when they are answered is lost: that is all a   *)
(* read does, so only the create calls are followed further               *)
Left(calls) ==
    {[c EXCEPT !.live = FALSE] : c \in {d \in calls : d.method = "POST"}}

(* a step in which no call to the requests service is made *)
NoCall == lastCall' = NULL

(* utils/geocode (unnamed/part_004): the coordinate strings. A location   *)
(* is a string; Numbers gives what split(',').map(parseFloat) makes of it, *)
(* in millionths of a degree, and <<>> when that is not two finite numbers *)
CoordPlaces == {"0.347600, 32.582500", "0.313600, 32.581100"}
OffTheMap == "91.000000, 32.582500"

Numbers(loc) ==
    CASE loc = "0.347600, 32.582500" -> <<347600, 32582500>>
      [] loc = "0.313600, 32.581100" -> <<313600, 32581100>>
      [] loc = "91.000000, 32.582500" -> <<91000000, 32582500>>
      [] OTHER -> <<>>

isCoordString(loc) ==
    LET n == Numbers(trim(loc))
    IN /\ Len(n) = 2
       /\ n[1] >= -90 * 1000000
       /\ n[1] <= 90 * 1000000
       /\ n[2] >= -180 * 1000000
       /\ n[2] <= 180 * 1000000

parseCoordString(loc) ==
    IF ~isCoordString(loc) THEN NULL
    ELSE LET n == Numbers(trim(loc))
         IN <<[lat |-> n[1], lng |-> n[2]]>>

(* what the geocoding service knows about the places of the model *)
BodyAt(coords) ==
    IF coords.lat = 347600
    THEN Body(TRUE, FALSE,
              <<[NoAddress EXCEPT !.road = "Kampala Road",
                                  !.city = "Kampala"]>>, NoName)
    ELSE Body(TRUE, FALSE,
              <<[NoAddress EXCEPT !.road = "Entebbe Road",
                                  !.city = "Kampala"]>>, NoName)

(* RequestCard: loc || '\u2014' *)
NO_LOCATION == <<"-">>

(* CreateRequest: the effect on [location], its cleanup run first *)
LocationEffect(text) ==
    LET loc == trim(text)
    IN IF ~isCoordString(loc)
       THEN /\ friendlyAddress' = NULL
            /\ addressStatus' = "idle"
            /\ addressTimer' = NULL
            /\ lastLookup' = NULL
            /\ UNCHANGED addressOpen
       ELSE /\ addressTimer' = parseCoordString(loc)
            /\ lastLookup' = NULL
            /\ UNCHANGED <<friendlyAddress, addressStatus, addressOpen>>

FreshForm ==
    /\ issue' = ""
    /\ formLocation' = ""
    /\ formLoading' = FALSE
    /\ mediaFiles' = <<>>
    /\ isRecording' = FALSE
    /\ mediaRecorderRef' = NULL
    /\ micPending' = <<>>
    /\ onstopQueue' = <<>>
    /\ kept' = {}
    /\ friendlyAddress' = NULL
    /\ addressStatus' = "idle"
    /\ addressTimer' = NULL
    /\ addressOpen' = {}
    /\ lastLookup' = NULL

FreshHome ==
    /\ requests' = <<>>
    /\ previousStatusesRef' = <<>>
    /\ toasts' = <<>>
    /\ cardLocation' = ""
    /\ displayLocation' = NO_LOCATION
    /\ geocodeStatus' = "idle"
    /\ cardOpen' = {}

InitPages ==
    /\ page = "CreateRequest"
    /\ filesMade = 0
    /\ issue = ""
    /\ formLocation = ""
    /\ formLoading = FALSE
    /\ mediaFiles = <<>>
    /\ isRecording = FALSE
    /\ mediaRecorderRef = NULL
    /\ micPending = <<>>
    /\ onstopQueue = <<>>
    /\ kept = {}
    /\ requests = <<>>
    /\ previousStatusesRef = <<>>
    /\ toasts = <<>>
    /\ serverRequests = <<>>
    /\ apiOpen = {}
    /\ lastCall = NULL
    /\ friendlyAddress = NULL
    /\ addressStatus = "idle"
    /\ addressTimer = NULL
    /\ addressOpen = {}
    /\ cardLocation = ""
    /\ displayLocation = NO_LOCATION
    /\ geocodeStatus = "idle"
    /\ cardOpen = {}
    /\ lastLookup = NULL
    /\ loginPhone = <<>>
    /\ step = "phone"
    /\ loginLoading = FALSE
    /\ otpOpen = NULL
    /\ lastOtp = NULL
    /\ stored = NULL

BaseVars == <<authVars, now, geoVars, tabVars, loginVars>>

OtherVars == <<BaseVars, addressVars>>

SetIssue(text) ==
    /\ page = "CreateRequest"
    /\ text # issue
    /\ issue' = text
    /\ UNCHANGED <<OtherVars, page, filesMade, formLocation, formLoading,
                   mediaFiles, isRecording, mediaRecorderRef, micPending,
                   onstopQueue, kept, homeVars, serverRequests,
                   apiOpen>>
    /\ NoCall

SetLocation(text) ==
    /\ page = "CreateRequest"
    /\ text # formLocation
    /\ formLocation' = text
    /\ LocationEffect(text)
    /\ UNCHANGED <<BaseVars, page, filesMade, issue, formLoading,
                   mediaFiles, isRecording, mediaRecorderRef, micPending,
                   onstopQueue, kept, homeVars, serverRequests,
                   apiOpen, cardVars>>
    /\ NoCall

textVars == <<issue, formLocation, formLoading>>

recorderVars == <<isRecording, mediaRecorderRef, micPending, onstopQueue>>

(* files that recordings under way will still make *)
Reserved ==
    Len(micPending) + Len(onstopQueue) + (IF isRecording THEN 1 ELSE 0)

(* the Mic button while it shows "record": getUserMedia is awaited; the    *)
(* onstop handler made after it closes over the mediaFiles of this render  *)
startRecording ==
    /\ page = "CreateRequest"
    /\ ~isRecording
    /\ Len(micPending) < MaxMic
    /\ filesMade + Reserved < MaxFiles
    /\ micPending' = Append(micPending, mediaFiles)
    /\ UNCHANGED <<OtherVars, page, filesMade, textVars, mediaFiles,
                   isRecording, mediaRecorderRef, onstopQueue, kept, homeVars,
                   serverRequests, apiOpen>>
    /\ NoCall

(* getUserMedia resolves: the recorder is made and started *)
MicGranted ==
    /\ micPending # <<>>
    /\ mediaRecorderRef' = [mediaFiles |-> Head(micPending)]
    /\ isRecording' = TRUE
    /\ micPending' = Tail(micPending)
    /\ UNCHANGED <<OtherVars, page, filesMade, textVars, mediaFiles,
                   onstopQueue, kept, homeVars, serverRequests,
                   apiOpen>>
    /\ NoCall

(* getUserMedia rejects: the catch shows a toast *)
MicDenied ==
    /\ micPending # <<>>
    /\ micPending' = Tail(micPending)
    /\ UNCHANGED <<OtherVars, page, filesMade, textVars, mediaFiles,
                   isRecording, mediaRecorderRef, onstopQueue, kept, homeVars,
                   serverRequests, apiOpen>>
    /\ NoCall

(* the Mic button while it shows "stop" *)
stopRecording ==
    /\ page = "CreateRequest"
    /\ isRecording
    /\ IF mediaRecorderRef # NULL /\ isRecording
       THEN /\ onstopQueue' = Append(onstopQueue, mediaRecorderRef.mediaFiles)
            /\ isRecording' = FALSE
       ELSE UNCHANGED <<onstopQueue, isRecording>>
    /\ UNCHANGED <<OtherVars, page, filesMade, textVars, mediaFiles,
                   mediaRecorderRef, micPending, kept, homeVars, serverRequests,
                   apiOpen>>
    /\ NoCall

(* mediaRecorder.onstop: the voice note is appended to the list the        *)
(* handler closed over                                                     *)
onstop(closed, current, audioFile) == Append(closed, audioFile)

OnStop ==
    /\ onstopQueue # <<>>
    /\ LET audioFile == File("audio/webm", filesMade + 1) IN
         /\ mediaFiles' = onstop(Head(onstopQueue), mediaFiles, audioFile)
         /\ kept' = kept \cup {audioFile}
    /\ filesMade' = filesMade + 1
    /\ onstopQueue' = Tail(onstopQueue)
    /\ UNCHANGED <<OtherVars, page, textVars, isRecording, mediaRecorderRef,
                   micPending, homeVars, serverRequests,
                   apiOpen>>
    /\ NoCall

AddFiles(types) ==
    /\ page = "CreateRequest"
    /\ filesMade + Reserved + Len(types) <= MaxFiles
    /\ LET filesWithPreview == Files(types, filesMade) IN
         /\ mediaFiles' = mediaFiles \o filesWithPreview
         /\ kept' = kept \cup Range(filesWithPreview)
    /\ filesMade' = filesMade + Len(types)
    /\ UNCHANGED <<OtherVars, page, textVars, recorderVars, homeVars,
                   serverRequests, apiOpen>>
    /\ NoCall

handleFileSelect(types) == AddFiles(types)

handleCameraCapture == AddFiles(<<"image/jpeg">>)

RemoveAt(seq, index) ==
    SubSeq(seq, 1, index - 1) \o SubSeq(seq, index + 1, Len(seq))

removeMedia(index) ==
    /\ page = "CreateRequest"
    /\ index \in 1..Len(mediaFiles)
    /\ mediaFiles' = RemoveAt(mediaFiles, index)
    /\ kept' = kept \ {mediaFiles[index]}
    /\ UNCHANGED <<OtherVars, page, filesMade, textVars, recorderVars,
                   homeVars, serverRequests,
                   apiOpen>>
    /\ NoCall

(* the Send button is disabled while a create call is open or a field is   *)
(* blank                                                                   *)
SendEnabled ==
    /\ ~formLoading
    /\ trim(issue) # ""
    /\ trim(formLocation) # ""

(* the call handleSubmit makes for the form as it is *)
SubmitCall(files) ==
    IF Len(files) > 0 THEN createWithMedia(files) ELSE create

handleSubmit ==
    /\ page = "CreateRequest"
    /\ SendEnabled
    /\ Len(serverRequests) + Cardinality({c \in apiOpen : c.method = "POST"})
         < MaxRequests
    /\ IF trim(issue) = "" \/ trim(formLocation) = ""
       THEN UNCHANGED <<formLoading, apiOpen>> /\ NoCall
       ELSE /\ formLoading' = TRUE
            /\ apiOpen' = apiOpen \cup {SubmitCall(mediaFiles)}
            /\ lastCall' = <<SubmitCall(mediaFiles)>>
    /\ UNCHANGED <<OtherVars, page, filesMade, issue, formLocation,
                   mediaFiles, recorderVars, kept, homeVars, serverRequests>>

(* handleSubmit of the page as pages/CreateRequest.tsx has it: "For now,   *)
(* submit without files"                                                   *)
handleSubmit_pages ==
    /\ page = "CreateRequest"
    /\ SendEnabled
    /\ Len(serverRequests) + Cardinality({c \in apiOpen : c.method = "POST"})
         < MaxRequests
    /\ IF trim(issue) = "" \/ trim(formLocation) = ""
       THEN UNCHANGED <<formLoading, apiOpen>> /\ NoCall
       ELSE /\ formLoading' = TRUE
            /\ apiOpen' = apiOpen \cup {create}
            /\ lastCall' = <<create>>
    /\ UNCHANGED <<OtherVars, page, filesMade, issue, formLocation,
                   mediaFiles, recorderVars, kept, homeVars, serverRequests>>

(* Home mounts: state as constructed, and the mount effect calls           *)
(* fetchRequests                                                           *)
ToHome(open) ==
    /\ page' = "Home"
    /\ FreshForm
    /\ FreshHome
    /\ apiOpen' = Left(open) \cup {getAll}
    /\ lastCall' = <<getAll>>

(* the create call is answered: on success the form is reset and the       *)
(* driver is taken to the list of requests                                 *)
CreateResponse(call, ok) ==
    /\ call \in apiOpen
    /\ call.method = "POST"
    /\ serverRequests' =
         IF ok THEN Append(serverRequests, "pending") ELSE serverRequests
    /\ IF ok /\ page = "CreateRequest"
       THEN ToHome(apiOpen \ {call})
       ELSE /\ apiOpen' = apiOpen \ {call}
            /\ formLoading' = IF call.live THEN FALSE ELSE formLoading
            /\ NoCall
            /\ UNCHANGED <<page, issue, formLocation, mediaFiles,
                           recorderVars, kept, homeVars, addressVars>>
    /\ UNCHANGED <<BaseVars, filesMade>>

(* the links of the bottom navigation *)
OpenHome ==
    /\ page = "CreateRequest"
    /\ ToHome(apiOpen)
    /\ UNCHANGED <<BaseVars, filesMade, serverRequests>>

OpenCreateRequest ==
    /\ page = "Home"
    /\ page' = "CreateRequest"
    /\ FreshForm
    /\ FreshHome
    /\ apiOpen' = Left(apiOpen)
    /\ NoCall
    /\ UNCHANGED <<BaseVars, filesMade, serverRequests>>

(* fetchRequests up to its await: the 10 s poll and the refresh button *)
fetchRequests ==
    /\ page = "Home"
    /\ getAll \notin apiOpen
    /\ apiOpen' = apiOpen \cup {getAll}
    /\ lastCall' = <<getAll>>
    /\ UNCHANGED <<OtherVars, page, filesMade, formVars, homeVars,
                   serverRequests>>

statusMessages ==
    [s \in {"accepted", "in_progress", "completed", "cancelled"} |->
        CASE s = "accepted" -> "A mechanic has accepted your request!"
          [] s = "in_progress" -> "Repair work is in progress!"
          [] s = "completed" -> "Your request has been completed!"
          [] s = "cancelled" -> "Your request was cancelled"]

(* response.data of getAll *)
Listed(statuses) ==
    [i \in 1..Len(statuses) |-> [id |-> i, status |-> statuses[i]]]

(* toasts that are also shown for a request that is seen the first time *)
StatusToasts_FirstSeen(previous, newRequests) ==
    LET changed ==
          SelectSeq(newRequests,
                    LAMBDA request :
                      /\ \/ request.id \notin DOMAIN previous
                         \/ previous[request.id] # request.status
                      /\ request.status \in DOMAIN statusMessages)
    IN [j \in 1..Len(changed) |-> statusMessages[changed[j].status]]

(* the toasts fetchRequests shows for newRequests, given the statuses it   *)
(* remembered                                                              *)
StatusToasts(previous, newRequests) ==
    LET changed ==
          SelectSeq(newRequests,
                    LAMBDA request :
                      /\ request.id \in DOMAIN previous
                      /\ previous[request.id] # request.status
                      /\ request.status \in DOMAIN statusMessages)
    IN [j \in 1..Len(changed) |-> statusMessages[changed[j].status]]

(* fetchRequests after its await *)
GetAllResponse(call, ok) ==
    /\ call \in apiOpen
    /\ call.method = "GET"
    /\ call.url = "/requests/"
    /\ apiOpen' = apiOpen \ {call}
    /\ IF call.live /\ ok
       THEN LET newRequests == Listed(serverRequests) IN
              /\ toasts' = StatusToasts(previousStatusesRef, newRequests)
              /\ previousStatusesRef' = serverRequests
              /\ requests' = newRequests
       ELSE UNCHANGED homeVars
    /\ NoCall
    /\ UNCHANGED <<OtherVars, page, filesMade, formVars, serverRequests>>

canCallMechanic(status) == status = "accepted" \/ status = "en_route"

(* the call button of a request card, which is there while the request    *)
(* can be called about                                                     *)
handleCallMechanic(i) ==
    /\ page = "Home"
    /\ i \in 1..Len(requests)
    /\ canCallMechanic(requests[i].status)
    /\ IF ~canCallMechanic(requests[i].status)
       THEN UNCHANGED apiOpen /\ NoCall
       ELSE /\ apiOpen' = apiOpen \cup {getCallPartner(requests[i].id)}
            /\ lastCall' = <<getCallPartner(requests[i].id)>>
    /\ UNCHANGED <<OtherVars, page, filesMade, formVars, homeVars,
                   serverRequests>>

CallPartnerResponse(call) ==
    /\ call \in apiOpen
    /\ call.method = "GET"
    /\ call.url = "/requests/${id}/call-partner"
    /\ apiOpen' = apiOpen \ {call}
    /\ NoCall
    /\ UNCHANGED <<OtherVars, page, filesMade, formVars, homeVars,
                   serverRequests>>

(* a mechanic or the service moves a request on. The driver sees the      *)
(* service only through the list of Home, so the changes are followed      *)
(* while Home is mounted: one made earlier shows as one made before the    *)
(* first answer to getAll                                                  *)
ServerChange(i, status) ==
    /\ page = "Home"
    /\ i \in 1..Len(serverRequests)
    /\ status # serverRequests[i]
    /\ serverRequests' = [serverRequests EXCEPT ![i] = status]
    /\ NoCall
    /\ UNCHANGED <<OtherVars, page, filesMade, formVars, homeVars, apiOpen>>

-----------------------------------------------------------------------------

(* localStorage outlives the page: a page load finds what earlier sessions  *)
(* (or anything else running in the origin) left there                     *)
StoredSession(t, u, c) ==
    [k \in StorageKeys |->
        CASE k = STORAGE_TOKEN_KEY -> t
          [] k = STORAGE_USER_KEY -> u
          [] k = STORAGE_LAST_AUTH_CHECK -> c]

InitStorages ==
    {StoredSession(NULL, NULL, NULL),
     StoredSession(<<"jwt-a">>, Stringify(UserOf("+256700000000")), TIMESTAMP),
     StoredSession(<<"jwt-a">>, CORRUPT, TIMESTAMP)}

Init ==
    /\ storage \in InitStorages
    /\ user = NULL
    /\ isLoading = TRUE
    /\ isAuthenticated = FALSE
    /\ authCheckInProgressRef = FALSE
    /\ mounted = FALSE
    /\ inflight = {}
    /\ timers = {}
    /\ location = "/"
    /\ reloadPending = FALSE
    /\ now = TickMs
    /\ lastRequestTime = 0
    /\ geoWaiting = <<>>
    /\ geoStarts = <<>>
    /\ geoOpen = 0
    /\ geoSettled = NotSettled
    /\ InitPages
    /\ loggedOutFor = NULL
    /\ tickCalls = 0
    /\ tickSent = 0
    /\ ev = NoEv
    /\ routing = FALSE

(* the phone the driver signs in with on the login page; the stored        *)
(* session of InitStorages is that of the other phone                      *)
NavPhones == {"+256700000001"}

Next ==
    \/ Mount
    \/ \E sameTask \in BOOLEAN : CheckAuthCall(sameTask)
    \/ \E r \in inflight, o \in Outcomes, u \in Users : MeResponse(r, o, u)
    \/ \E t \in timers : RetryTimerFire(t)
    \/ \E p \in NavPhones : Login(p)
    \/ \E r \in inflight, o \in Outcomes, withToken \in BOOLEAN :
          LoginResponse(r, o, IF withToken THEN TokenOf(r.phone) ELSE "")
    \/ Logout
    \/ \E url \in ApiUrls : ApiRequest(url)
    \/ \E r \in inflight, o \in Outcomes : ApiResponse(r, o)
    \/ PageReload
    \/ RetryWait

Spec == Init /\ [][Next]_vars

(* The check of the mount effect under the scheduling of the browser: a   *)
(* page that is loaded mounts, a timer that is due fires, time passes      *)
(* while a timer waits, and every /auth/me request is answered or fails.   *)
(* The driver does not sign in again, so the one check a page load starts  *)
(* has the time its retries take                                           *)
(* time passes up to the moment the next timer is due, not beyond it *)
WaitForTimer ==
    /\ \A t \in timers : now < t.setAt + t.delay
    /\ RetryWait

NextLive ==
    \/ Mount
    \/ \E r \in inflight, o \in Outcomes, u \in Users : MeResponse(r, o, u)
    \/ \E t \in timers : RetryTimerFire(t)
    \/ Logout
    \/ \E url \in ApiUrls : ApiRequest(url)
    \/ \E r \in inflight, o \in Outcomes : ApiResponse(r, o)
    \/ PageReload
    \/ WaitForTimer

Fairness ==
    /\ WF_vars(Mount)
    /\ WF_vars(\E r \in inflight, o \in Outcomes, u \in Users :
                  MeResponse(r, o, u))
    /\ WF_vars(\E t \in timers : RetryTimerFire(t))
    /\ WF_vars(PageReload)
    /\ WF_vars(WaitForTimer)

SpecLive == Init /\ [][NextLive]_vars /\ Fairness

(* the same handlers with the router of App.tsx around them *)

InitNav ==
    /\ storage \in InitStorages
    /\ user = NULL
    /\ isLoading = TRUE
    /\ isAuthenticated = FALSE
    /\ authCheckInProgressRef = FALSE
    /\ mounted = FALSE
    /\ inflight = {}
    /\ timers = {}
    /\ location \in Routes
    /\ reloadPending = FALSE
    /\ now = TickMs
    /\ lastRequestTime = 0
    /\ geoWaiting = <<>>
    /\ geoStarts = <<>>
    /\ geoOpen = 0
    /\ geoSettled = NotSettled
    /\ InitPages
    /\ loggedOutFor = NULL
    /\ tickCalls = 0
    /\ tickSent = 0
    /\ ev = NoEv
    /\ routing = TRUE

NextNav ==
    \/ \E path \in Routes : PageLoad(path)
    \/ Mount
    \/ \E r \in inflight, o \in Outcomes, u \in Users : MeResponse(r, o, u)
    \/ \E t \in timers : RetryTimerFire(t)
    \/ \E p \in NavPhones : Login(p)
    \/ \E r \in inflight, o \in Outcomes, withToken \in BOOLEAN :
          LoginResponse(r, o, IF withToken THEN TokenOf(r.phone) ELSE "")
    \/ Logout
    \/ \E url \in ApiUrls : ApiRequest(url)
    \/ \E r \in inflight, o \in Outcomes : ApiResponse(r, o)
    \/ PageReload
    \/ RetryWait

SpecNav == InitNav /\ [][NextNav]_vars

NextGeo ==
    \/ \E n \in 1..2 : GeoCalls(n)
    \/ \E i \in 1..MaxGeoCalls : GeoResume(i)
    \/ \E o \in FetchOutcomes, b \in Bodies : GeoSettle(o, b)
    \/ Tick(GeoTickMs)

SpecGeo == Init /\ [][NextGeo]_vars

(* the pages of a signed-in driver *)
-----------------------------------------------------------------------------
(* The friendly address of a coordinate location: the effect of the        *)
(* create-request form (unnamed/part_002) and the effect of RequestCard    *)
(* (services/driverWs.ts). The throttle and the fetch of reverseGeocode    *)
(* are the ones above; here a call is open until its promise settles.      *)

(* the debounce timer of the form runs: setAddressStatus('loading') and    *)
(* the call of reverseGeocode                                              *)
AddressTimerFire ==
    /\ page = "CreateRequest"
    /\ addressTimer # NULL
    /\ addressStatus' = "loading"
    /\ addressOpen' = addressOpen \cup {addressTimer[1]}
    /\ addressTimer' = NULL
    /\ lastLookup' = NULL
    /\ UNCHANGED <<BaseVars, page, filesMade, formVars, homeVars, serviceVars,
                   friendlyAddress, cardVars>>

(* a call of the form settles: its .then / .catch *)
AddressAnswer(coords, outcome) ==
    /\ page = "CreateRequest"
    /\ coords \in addressOpen
    /\ addressOpen' = addressOpen \ {coords}
    /\ LET result == reverseGeocode(outcome, BodyAt(coords))
       IN IF ~result.rejected /\ result.value # NULL
          THEN /\ friendlyAddress' = result.value
               /\ addressStatus' = "done"
          ELSE /\ friendlyAddress' = FALLBACK_LABEL
               /\ addressStatus' = "error"
    /\ lastLookup' = <<[at |-> "form", coords |-> coords]>>
    /\ UNCHANGED <<BaseVars, page, filesMade, formVars, homeVars, serviceVars,
                   addressTimer, cardVars>>

(* the card is rendered with another request.location: the cleanup of the  *)
(* effect sets cancelled, then the effect runs                             *)
CardLocationChange(text) ==
    /\ page = "Home"
    /\ text # cardLocation
    /\ cardLocation' = text
    /\ LET loc == trim(text)
           left == {[l EXCEPT !.cancelled = TRUE] : l \in cardOpen}
       IN IF ~isCoordString(loc)
          THEN /\ displayLocation' = IF loc # "" THEN <<loc>> ELSE NO_LOCATION
               /\ geocodeStatus' = "idle"
               /\ cardOpen' = left
          ELSE /\ geocodeStatus' = "loading"
               /\ cardOpen' = left \cup {[coords |-> parseCoordString(loc)[1],
                                          cancelled |-> FALSE]}
               /\ UNCHANGED displayLocation
    /\ lastLookup' = NULL
    /\ UNCHANGED <<BaseVars, page, filesMade, formVars, homeVars, serviceVars,
                   formAddressVars>>

(* a call of the card settles: its .then / .catch *)
CardAnswer(l, outcome) ==
    /\ page = "Home"
    /\ l \in cardOpen
    /\ cardOpen' = cardOpen \ {l}
    /\ LET result == reverseGeocode(outcome, BodyAt(l.coords))
       IN IF l.cancelled
          THEN UNCHANGED <<displayLocation, geocodeStatus>>
          ELSE /\ displayLocation' = DisplayLocation(result)
               /\ geocodeStatus' =
                    IF ~result.rejected /\ result.value # NULL
                    THEN "done" ELSE "error"
    /\ lastLookup' = <<[at |-> "card", coords |-> l.coords]>>
    /\ UNCHANGED <<BaseVars, page, filesMade, formVars, homeVars, serviceVars,
                   formAddressVars, cardLocation>>

-----------------------------------------------------------------------------
(* pages/Login.tsx: the phone step. A string is the sequence of its        *)
(* characters.                                                             *)

MaxPhoneLen == 3

(* the keys the driver presses, and the characters that are digits *)
PhoneChars == {"+", "0", "2", "5", "6"}
DigitChars == {"0", "1", "2", "3", "4", "5", "6", "7", "8", "9"}

(* the nine digits of a subscriber number *)
Subscriber == <<"7", "0", "0", "1", "2", "3", "4", "5", "6">>

(* what the field holds while the driver types: a short string, or one    *)
(* followed by nine digits                                                 *)
IsInput(value) ==
    \/ Len(value) <= MaxPhoneLen
    \/ /\ Len(value) >= Len(Subscriber)
       /\ Len(value) <= MaxPhoneLen + Len(Subscriber)
       /\ SubSeq(value, Len(value) - Len(Subscriber) + 1, Len(value))
            = Subscriber

(* e.target.value after a key, after backspace, after the subscriber       *)
(* number is pasted at the end, after the field is cleared                 *)
Edits(value) ==
    {v \in {Append(value, c) : c \in PhoneChars}
            \cup {SubSeq(value, 1, Len(value) - 1), value \o Subscriber, <<>>} :
        IsInput(v)}

(* value.replace(/\D/g, '') *)
Digits(value) == SelectSeq(value, LAMBDA c : c \in DigitChars)

startsWith(s, prefix) ==
    /\ Len(s) >= Len(prefix)
    /\ SubSeq(s, 1, Len(prefix)) = prefix

(* a formatPhone without the branch for numbers that begin with 256 *)
formatPhone_NoCountryCode(value) ==
    LET digits == Digits(value)
    IN IF startsWith(digits, <<"0">>)
       THEN <<"+", "2", "5", "6">> \o Tail(digits)
       ELSE IF Len(digits) > 0 THEN <<"+", "2", "5", "6">> \o digits
       ELSE <<>>

formatPhone(value) ==
    LET digits == Digits(value)
    IN IF startsWith(digits, <<"2", "5", "6">>) THEN <<"+">> \o digits
       ELSE IF startsWith(digits, <<"0">>)
       THEN <<"+", "2", "5", "6">> \o Tail(digits)
       ELSE IF Len(digits) > 0 THEN <<"+", "2", "5", "6">> \o digits
       ELSE <<>>

MIN_PHONE_LENGTH == 13

loginPageVars ==
    <<authVars, now, geoVars, tabVars, page, filesMade, formVars, homeVars,
      serviceVars, addressVars>>

(* the phone input: onChange *)
SetPhone(value) ==
    /\ step = "phone"
    /\ value # loginPhone
    /\ loginPhone' = value
    /\ stored' = NULL
    /\ lastOtp' = NULL
    /\ UNCHANGED <<step, loginLoading, otpOpen, loginPageVars>>

(* handleSendOtp up to its await; the button is disabled while isLoading   *)
(* and while the field is empty                                            *)
handleSendOtp ==
    /\ step = "phone"
    /\ ~loginLoading
    /\ loginPhone # <<>>
    /\ LET formattedPhone == formatPhone(loginPhone)
       IN IF Len(formattedPhone) < MIN_PHONE_LENGTH
          THEN /\ lastOtp' = NULL
               /\ UNCHANGED <<loginLoading, otpOpen>>
          ELSE /\ loginLoading' = TRUE
               /\ otpOpen' = <<formattedPhone>>
               /\ lastOtp' = <<formattedPhone>>
    /\ UNCHANGED <<loginPhone, step, stored, loginPageVars>>

SendOtpOutcomes == {"ok", "new", "error"}

(* handleSendOtp after its await: the then branch, the catch, the finally *)
SendOtpResponse(outcome) ==
    /\ otpOpen # NULL
    /\ otpOpen' = NULL
    /\ loginLoading' = FALSE
    /\ lastOtp' = NULL
    /\ IF outcome \in {"ok", "new"}
       THEN /\ loginPhone' = otpOpen[1]
            /\ stored' = otpOpen
            /\ step' = "otp"
       ELSE UNCHANGED <<loginPhone, stored, step>>
    /\ UNCHANGED loginPageVars

(* the "Change phone number" button of the OTP step *)
ChangeNumber ==
    /\ step = "otp"
    /\ step' = "phone"
    /\ lastOtp' = NULL
    /\ UNCHANGED <<loginPhone, loginLoading, otpOpen, stored, loginPageVars>>

NextPhone ==
    \/ \E value \in Edits(loginPhone) : SetPhone(value)
    \/ handleSendOtp
    \/ \E outcome \in SendOtpOutcomes : SendOtpResponse(outcome)
    \/ ChangeNumber

InitLogin ==
    /\ Init
    /\ storage = StoredSession(NULL, NULL, NULL)

SpecPhone == InitLogin /\ [][NextPhone]_vars

InitSignedIn ==
    /\ Init
    /\ storage = StoredSession(<<"jwt-a">>, Stringify(UserOf("+256700000000")),
                               TIMESTAMP)

NextPages ==
    \/ \E text \in Texts : SetIssue(text)
    \/ \E text \in Places : SetLocation(text)
    \/ startRecording
    \/ MicGranted
    \/ MicDenied
    \/ stopRecording
    \/ OnStop
    \/ \E types \in Picks : handleFileSelect(types)
    \/ handleCameraCapture
    \/ \E index \in 1..MaxFiles : removeMedia(index)
    \/ handleSubmit
    \/ \E call \in apiOpen, ok \in BOOLEAN : CreateResponse(call, ok)
    \/ OpenHome
    \/ OpenCreateRequest
    \/ fetchRequests
    \/ \E call \in apiOpen, ok \in BOOLEAN : GetAllResponse(call, ok)
    \/ \E i \in 1..MaxRequests : handleCallMechanic(i)
    \/ \E call \in apiOpen : CallPartnerResponse(call)
    \/ \E i \in 1..MaxRequests, status \in Statuses : ServerChange(i, status)

SpecPages == InitSignedIn /\ [][NextPages]_vars

(* the pages with the create-request form of pages/CreateRequest.tsx *)
NextPages_pages ==
    \/ \E text \in Texts : SetIssue(text)
    \/ \E text \in Places : SetLocation(text)
    \/ startRecording
    \/ MicGranted
    \/ MicDenied
    \/ stopRecording
    \/ OnStop
    \/ \E types \in Picks : handleFileSelect(types)
    \/ handleCameraCapture
    \/ \E index \in 1..MaxFiles : removeMedia(index)
    \/ handleSubmit_pages
    \/ \E call \in apiOpen, ok \in BOOLEAN : CreateResponse(call, ok)
    \/ OpenHome
    \/ OpenCreateRequest
    \/ fetchRequests
    \/ \E call \in apiOpen, ok \in BOOLEAN : GetAllResponse(call, ok)
    \/ \E i \in 1..MaxRequests : handleCallMechanic(i)
    \/ \E call \in apiOpen : CallPartnerResponse(call)
    \/ \E i \in 1..MaxRequests, status \in Statuses : ServerChange(i, status)

SpecPages_pages == InitSignedIn /\ [][NextPages_pages]_vars

(* the two components with locations that are coordinates *)
NextAddress ==
    \/ \E text \in Places \cup CoordPlaces \cup {OffTheMap} : SetLocation(text)
    \/ AddressTimerFire
    \/ \E coords \in addressOpen, o \in FetchOutcomes :
          AddressAnswer(coords, o)
    \/ \E text \in Places \cup CoordPlaces \cup {OffTheMap} :
          CardLocationChange(text)
    \/ \E l \in cardOpen, o \in FetchOutcomes : CardAnswer(l, o)
    \/ OpenHome
    \/ OpenCreateRequest
    \/ \E call \in apiOpen, ok \in BOOLEAN : GetAllResponse(call, ok)

SpecAddress == InitSignedIn /\ [][NextAddress]_vars

(* the app open in a second tab of the same browser: localStorage and     *)
(* the session at the server are shared                                    *)

DETECT_WITHIN_MS == 60000
POLL_INTERVAL_MS == 10000

(* this tab shows a page behind PrivateRoute and has nothing under way *)
Settled ==
    /\ mounted
    /\ inflight = {}
    /\ timers = {}
    /\ ~reloadPending

(* the driver logs out in the other tab: logout() there clears             *)
(* localStorage and ends the session at the server. Nothing runs in this   *)
(* tab: the hook listens to no storage event                               *)
OtherTabLogout ==
    /\ loggedOutFor = NULL
    /\ Settled
    /\ isAuthenticated
    /\ ~isLoading
    /\ ShowsPage(Cur)
    /\ storage[STORAGE_TOKEN_KEY] # NULL
    /\ storage' = [k \in StorageKeys |-> NULL]
    /\ loggedOutFor' = Some(0)
    /\ tickCalls' = 0
    /\ tickSent' = 0
    /\ ev' = [NoEv EXCEPT !.op = "logout elsewhere"]
    /\ UNCHANGED <<user, isLoading, isAuthenticated, authCheckInProgressRef,
                   mounted, inflight, timers, location, reloadPending,
                   routing, now, geoVars, pageVars>>

(* ten seconds pass in which the driver does nothing in this tab. The      *)
(* timers of the app are the retry timer of checkAuth, which is not        *)
(* running, and the poll of Home, which fires if Home is on screen         *)
Idle ==
    /\ loggedOutFor # NULL
    /\ loggedOutFor[1] < DETECT_WITHIN_MS
    /\ Settled
    /\ loggedOutFor' = Some(loggedOutFor[1] + POLL_INTERVAL_MS)
    /\ IF location = "/requests" /\ ShowsPage(Cur)
       THEN LET s == Send(Cur, Request("/requests/", 0, "", NoPre)) IN
              /\ Commit(s)
              /\ ev' = [NoEv EXCEPT !.op = "poll", !.url = "/requests/",
                                    !.wire = s.wire]
       ELSE /\ ev' = [NoEv EXCEPT !.op = "idle"]
            /\ UNCHANGED <<storage, user, isLoading, isAuthenticated,
                           authCheckInProgressRef, mounted, inflight, timers,
                           location, reloadPending, routing>>
    /\ tickCalls' = 0
    /\ tickSent' = 0
    /\ UNCHANGED <<now, geoVars, pageVars>>

(* the runs of the second tab: the driver opens the app, which finds the   *)
(* session of the first tab, and after the logout there touches nothing;   *)
(* the server, which has ended the session, answers 401                    *)
NextTabs ==
    \/ loggedOutFor = NULL /\ \E path \in Routes : PageLoad(path)
    \/ Mount
    \/ \E r \in inflight, o \in Outcomes, u \in Users : MeResponse(r, o, u)
    \/ \E t \in timers : RetryTimerFire(t)
    \/ \E r \in inflight : ApiResponse(r, "401")
    \/ PageReload
    \/ RetryWait
    \/ OtherTabLogout
    \/ Idle

SpecTabs == InitNav /\ [][NextTabs]_vars

-----------------------------------------------------------------------------
(* Properties *)

StorageEmpty == \A k \in StorageKeys : storage[k] = NULL

IsFailure(status) == status # 200

(* the step is the delivery of an answer with this status to /auth/me *)
MeStep(r, statusSet) ==
    /\ r \in inflight \ inflight'
    /\ r.url = "/auth/me"
    /\ ev'.op = "meResponse"
    /\ ev'.status \in statusSet

C3_OneRequestPerTask ==
    [][/\ (tickCalls' = 1 /\ ~authCheckInProgressRef
              /\ storage'[STORAGE_TOKEN_KEY] # NULL)
            => (tickSent' = 1 /\ Len(ev'.wire) = 1)
       /\ (tickCalls' > 1 /\ tickSent = 1)
            => /\ authCheckInProgressRef
               /\ tickSent' = 1
               /\ ev'.wire = <<>>
               /\ inflight' = inflight
      ]_vars

C3_Witness ==
    /\ tickCalls = MaxCallsPerTask
    /\ tickSent = 1
    /\ ev.op = "checkAuth"

(* C4: when a 401 answers a request of either API client, the token and    *)
(* the user record are gone from storage and the navigation to /login is   *)
(* under way when the caller's own catch starts, and they stay so when the *)
(* handler is done.                                                        *)
C4_Global401 ==
    (ev.op \in {"meResponse", "loginResponse", "response"} /\ ev.status = 401)
        => /\ ev.seen.token = NULL
           /\ ev.seen.user = NULL
           /\ ev.seen.nav
           /\ storage[STORAGE_TOKEN_KEY] = NULL
           /\ storage[STORAGE_USER_KEY] = NULL
           /\ location = "/login"
           /\ reloadPending

C4_Witness ==
    /\ ev.op = "response"
    /\ ev.url = "/requests/"
    /\ ev.status = 401
    /\ isAuthenticated
    /\ location = "/login"

(* C5: any two outbound reverse-geocoding calls start at least             *)
(* MIN_INTERVAL_MS apart.                                                  *)
C5_GeocodeSpacing ==
    \A i, j \in DOMAIN geoStarts :
        i < j => geoStarts[j] - geoStarts[i] >= MIN_INTERVAL_MS

(* C6: logout leaves storage empty, user null and isAuthenticated false    *)
(* while its /auth/logout call is still open, and a failed answer to that  *)
(* call brings back no key and changes neither user nor isAuthenticated.   *)
C6_LogoutClearsFirst ==
    [][/\ ev'.op = "logout"
            => /\ \A k \in StorageKeys : storage'[k] = NULL
               /\ user' = NULL
               /\ ~isAuthenticated'
               /\ \E r \in inflight' : r.url = "/auth/logout"
       /\ (ev'.op = "response" /\ ev'.url = "/auth/logout"
              /\ IsFailure(ev'.status))
            => /\ \A k \in StorageKeys : storage[k] = NULL => storage'[k] = NULL
               /\ user' = user
               /\ isAuthenticated' = isAuthenticated
      ]_vars

C6_Witness ==
    /\ ev.op = "response"
    /\ ev.url = "/auth/logout"
    /\ IsFailure(ev.status)
    /\ StorageEmpty
    /\ ~isAuthenticated
    /\ user = NULL

(* C7: whenever login resolves, storage holds a non-empty token and the    *)
(* record of the phone that signed in, isAuthenticated is true and that    *)
(* record is what login returns.                                           *)
C7_LoginPersistsSession ==
    [][\A r \in inflight \ inflight' :
          (r.url = "/auth/login" /\ ev'.op = "loginResponse"
              /\ ev'.status = 200)
          => /\ storage'[STORAGE_TOKEN_KEY] # NULL
             /\ HasSession(storage')
             /\ Parse(storage'[STORAGE_USER_KEY]).phone = r.phone
             /\ isAuthenticated'
             /\ ev'.returned = Some(Parse(storage'[STORAGE_USER_KEY]))
      ]_vars

TokenRemoved ==
    storage[STORAGE_TOKEN_KEY] # NULL /\ storage'[STORAGE_TOKEN_KEY] = NULL

UserRemoved ==
    storage[STORAGE_USER_KEY] # NULL /\ storage'[STORAGE_USER_KEY] = NULL

(* C8 as stated: no step removes one of the token key and the user key     *)
(* and leaves the other in storage.                                        *)
C8_RemovedTogether ==
    [][/\ TokenRemoved => storage'[STORAGE_USER_KEY] = NULL
       /\ UserRemoved => storage'[STORAGE_TOKEN_KEY] = NULL
      ]_vars

(* C8 amended: no step removes the token and leaves the user record; the   *)
(* only step that removes the user record and leaves the token is the      *)
(* mount effect finding a stored user that is not parseable.               *)
C8_RemovedTogetherButMount ==
    [][/\ TokenRemoved => storage'[STORAGE_USER_KEY] = NULL
       /\ (UserRemoved /\ storage'[STORAGE_TOKEN_KEY] # NULL)
            => (ev'.op = "mount" /\ ~ParseOk(storage[STORAGE_USER_KEY]))
      ]_vars

C8_Witness ==
    /\ ev.op = "mount"
    /\ storage[STORAGE_TOKEN_KEY] # NULL
    /\ storage[STORAGE_USER_KEY] = NULL
    /\ ~isAuthenticated
    /\ isLoading

C10_BearerHeader ==
    \A i \in DOMAIN ev.wire :
        ev.wire[i].authorization =
            IF storage[STORAGE_TOKEN_KEY] # NULL
            THEN <<"Bearer", storage[STORAGE_TOKEN_KEY][1]>>
            ELSE NULL

C10_Witness ==
    /\ ev.wire # <<>>
    /\ ev.wire[1].authorization = <<"Bearer", "jwt-b">>
    /\ Cardinality(inflight) >= 2

-----------------------------------------------------------------------------
(* The route guard *)

PageShown == ShowsPage(Cur)

(* C11: a protected route opened while storage holds no token shows the    *)
(* spinner until the mount effect has run, and the mount effect ends with  *)
(* the router at /login; the protected page is rendered at no point        *)
C11_NoTokenEndsAtLogin ==
    [][(/\ routing
        /\ ~mounted
        /\ location \in ProtectedRoutes
        /\ storage[STORAGE_TOKEN_KEY] = NULL)
       => /\ ~PageShown
          /\ ev'.op = "mount" => (location' = "/login" /\ ~PageShown')]_vars

C11_Witness ==
    /\ routing
    /\ ev.op = "mount"
    /\ ev.url \in ProtectedRoutes
    /\ storage[STORAGE_TOKEN_KEY] = NULL
    /\ location = "/login"

-----------------------------------------------------------------------------
(* Failures other than 401 *)

AnswerOps ==
    {"meResponse", "meResponse unmounted", "loginResponse", "response"}

-----------------------------------------------------------------------------
(* checkAuth: no token, success *)

C14_SuccessRefreshesUser ==
    [][(ev'.op = "meResponse" /\ ev'.status = 200)
       => /\ ev'.returned \in {Some(u) : u \in Users}
          /\ user' = ev'.returned
          /\ isAuthenticated'
          /\ storage'[STORAGE_USER_KEY] = Stringify(ev'.returned[1])
          /\ storage'[STORAGE_TOKEN_KEY] = storage[STORAGE_TOKEN_KEY]
      ]_vars

C14_Witness ==
    /\ ev.op = "meResponse"
    /\ ev.status = 200
    /\ ev.returned = Some(UserOf("+256700000001"))
    /\ user = ev.returned
    /\ storage[STORAGE_TOKEN_KEY] = <<TokenOf("+256700000000")>>
    /\ storage[STORAGE_USER_KEY] = Stringify(UserOf("+256700000001"))

-----------------------------------------------------------------------------
(* login *)

(* C15: when the login call fails, login throws the error it caught, and   *)
(* unless the failure is a 401 the step changes no storage key, nor user,  *)
(* nor isAuthenticated.                                                    *)
C15_LoginFailureRethrown ==
    [][(ev'.op = "loginResponse" /\ IsFailure(ev'.status))
       => /\ ev'.thrown = Some(ev'.status)
          /\ ev'.returned = NULL
          /\ ev'.status # 401
               => /\ storage' = storage
                  /\ user' = user
                  /\ isAuthenticated' = isAuthenticated
      ]_vars

C15_Witness ==
    /\ ev.op = "loginResponse"
    /\ ev.status = 500
    /\ ev.thrown = Some(500)
    /\ HasSession(storage)
    /\ isAuthenticated

(* C16: a sign-in that writes a token writes the token of the answer, and  *)
(* the user record it writes reads back as the record of the answer; the   *)
(* mount that follows the sign-in leaves the token as written, shows that  *)
(* record as user with isAuthenticated true while isLoading is still true, *)
(* and sends the verification with that token.                             *)
C16_RestoreRoundTrip ==
    [][/\ (ev'.op = "loginResponse" /\ ev'.status = 200)
            => /\ \E p \in Phones :
                    /\ ev'.returned = Some(UserOf(p))
                    /\ storage'[STORAGE_TOKEN_KEY] # storage[STORAGE_TOKEN_KEY]
                         => storage'[STORAGE_TOKEN_KEY] = <<TokenOf(p)>>
               /\ ParseOk(storage'[STORAGE_USER_KEY])
               /\ Some(Parse(storage'[STORAGE_USER_KEY])) = ev'.returned
       /\ (/\ ev.op = "loginResponse" /\ ev.status = 200
           /\ storage[STORAGE_TOKEN_KEY] # NULL
           /\ ev'.op = "mount")
            => /\ storage'[STORAGE_TOKEN_KEY] = storage[STORAGE_TOKEN_KEY]
               /\ storage'[STORAGE_USER_KEY] = storage[STORAGE_USER_KEY]
               /\ user' = ev.returned
               /\ isAuthenticated'
               /\ isLoading'
               /\ Len(ev'.wire) = 1
               /\ ev'.wire[1].authorization =
                      <<"Bearer", storage[STORAGE_TOKEN_KEY][1]>>
      ]_vars

C16_Witness ==
    /\ ev.op = "mount"
    /\ ev.url = "/requests"
    /\ mounted
    /\ isLoading
    /\ isAuthenticated
    /\ user = Some(UserOf("+256700000001"))
    /\ storage[STORAGE_TOKEN_KEY] = <<TokenOf("+256700000001")>>
    /\ storage[STORAGE_USER_KEY] = Stringify(UserOf("+256700000001"))

-----------------------------------------------------------------------------
(* reverseGeocode *)

(* a body that is no JSON text, or JSON with neither an address object nor *)
(* a string display_name                                                   *)
Malformed(body) ==
    \/ ~body.json
    \/ body.isNull
    \/ body.address = NULL /\ body.display_name.kind # "string"

(* C17: however the fetch settles and whatever the body is, the promise of *)
(* reverseGeocode resolves; it resolves to null when there was no answer,  *)
(* when the status was not OK and when the body was malformed, and the     *)
(* card then shows its fallback label.                                     *)
C17_ReverseGeocodeResolves ==
    geoSettled.settled
    => /\ ~geoSettled.rejected
       /\ (\/ geoSettled.outcome # "ok"
           \/ Malformed(geoSettled.body))
          => /\ geoSettled.value = NULL
             /\ geoSettled.displayLocation = FALLBACK_LABEL

C17_Witness ==
    /\ geoSettled.settled
    /\ geoSettled.outcome = "ok"
    /\ ~geoSettled.body.json
    /\ geoSettled.value = NULL
    /\ geoSettled.displayLocation = FALLBACK_LABEL

(* C18: every attachment the driver added and did not remove before       *)
(* pressing Send is among the files of the create call that Send issues    *)
C18_AttachmentsAllSent ==
    [][(lastCall' # NULL /\ lastCall'[1].method = "POST")
         => kept \subseteq Range(lastCall'[1].media_files)]_vars

(* the calls to the requests service that create a request or read *)
CreateCalls == {"/requests/", "/requests-with-media/"}

ReadCalls == {"/requests/", "/requests/${id}/call-partner"}

(* C19: the only calls made to the requests service are create calls and   *)
(* reads, never a status update, and the statuses on screen are those of   *)
(* the list that was fetched                                               *)
C19_OnlyCreateAndRead ==
    [][/\ lastCall' # NULL =>
            /\ \/ /\ lastCall'[1].method = "POST"
                  /\ lastCall'[1].url \in CreateCalls
               \/ /\ lastCall'[1].method = "GET"
                  /\ lastCall'[1].url \in ReadCalls
            /\ \A id \in 1..(MaxRequests + 1) :
                  lastCall'[1] # updateStatus(id)
       /\ requests' # requests =>
            requests' \in {<<>>, Listed(serverRequests)}]_vars

(* the driver looks up the mechanic of a request that the list shows as    *)
(* accepted while the service already has it completed                     *)
C19_Witness ==
    /\ page = "Home"
    /\ Len(requests) > 0
    /\ requests[1].status = "accepted"
    /\ serverRequests[1] = "completed"
    /\ lastCall = <<getCallPartner(1)>>

(* C20: sixty seconds after the driver logged out in another tab, this    *)
(* tab, in which the driver did nothing, is no longer authenticated        *)
C20_OtherTabLogoutDetected ==
    (loggedOutFor # NULL /\ loggedOutFor[1] >= DETECT_WITHIN_MS)
        => ~isAuthenticated

(* C21: when the app takes the driver from the splash page or the login   *)
(* page to a page behind PrivateRoute, after the login form completed or   *)
(* because the driver is authenticated already, that page is               *)
(* /create-request                                                         *)
C21_LandsOnCreateRequest ==
    [][(/\ location \in {"/", "/login"}
        /\ location' \in ProtectedRoutes
        /\ ev'.op # "load")
          => location' = "/create-request"]_vars

(* the /auth/me requests of the mounted hook that wait for an answer *)
MeInFlight == {r \in inflight : r.url = "/auth/me" /\ r.live}

(* C22: within one useAuth instance no two /auth/me requests are in flight *)
(* at the same time                                                        *)
C22_OneMeInFlight == Cardinality(MeInFlight) <= 1

(* the retry timers of the mounted hook *)
MeWaiting == {t \in timers : t.live}

(* C23: isLoading is never false while an /auth/me request started by the  *)
(* mount of the hook is open or waits to be retried                        *)
C23_LoadingUntilVerified ==
    (mounted /\ (MeInFlight # {} \/ MeWaiting # {})) => isLoading

(* a checkAuth call is under way: the guard is set, or a request or a     *)
(* retry timer of the call is open                                         *)
CheckUnderWay == authCheckInProgressRef \/ ChecksOpen > 0

CheckFinished ==
    /\ mounted
    /\ ChecksOpen = 0
    /\ ~authCheckInProgressRef
    /\ ~isLoading

(* C24: a checkAuth call that is under way finishes, given that every      *)
(* /auth/me request is answered or fails: then isLoading is false and the  *)
(* guard is released                                                       *)
C24_CheckAuthFinishes == CheckUnderWay ~> CheckFinished

(* a check has finished after its last retry failed *)
C24_Witness ==
    /\ CheckFinished
    /\ ev.op = "meResponse"
    /\ ev.status = 0
    /\ now = TickMs + maxRetries * RETRY_DELAY_MS

(* C25: after logout() the session stays destroyed when an /auth/me       *)
(* request that was in flight at the logout is answered with success:      *)
(* storage holds neither token nor user record and isAuthenticated is      *)
(* false. The answer is taken as the step that follows the logout, so no   *)
(* login lies between                                                      *)
C25_LogoutStays ==
    [][(/\ ev.op = "logout"
        /\ ev'.op \in {"meResponse", "meResponse unmounted"}
        /\ ev'.status = 200)
          => /\ storage'[STORAGE_TOKEN_KEY] = NULL
             /\ storage'[STORAGE_USER_KEY] = NULL
             /\ ~isAuthenticated']_vars

(* C26: a 401 answer to a request that was sent before the current login  *)
(* leaves the token and the user record of that login in storage. Every    *)
(* request open in the state in which login() has just stored them was     *)
(* sent before, so the 401 is taken as the step that follows               *)
C26_Late401KeepsLogin ==
    [][(/\ ev.op = "loginResponse"
        /\ ev.status = 200
        /\ storage[STORAGE_TOKEN_KEY] # NULL
        /\ storage[STORAGE_USER_KEY] # NULL
        /\ ev'.op \in {"response", "meResponse", "meResponse unmounted"}
        /\ ev'.status = 401)
          => /\ storage'[STORAGE_TOKEN_KEY] = storage[STORAGE_TOKEN_KEY]
             /\ storage'[STORAGE_USER_KEY] = storage[STORAGE_USER_KEY]]_vars

(* C27: the answer to a lookup changes the address that is displayed only  *)
(* if the location that triggered the lookup is still the location of the  *)
(* component, in the request card and in the create-request form           *)
C27_NoStaleAddress ==
    [][lastLookup' # NULL =>
         LET l == lastLookup'[1] IN
           /\ (l.at = "form" /\ parseCoordString(formLocation) # <<l.coords>>)
                => UNCHANGED <<friendlyAddress, addressStatus>>
           /\ (l.at = "card" /\ parseCoordString(cardLocation) # <<l.coords>>)
                => UNCHANGED <<displayLocation, geocodeStatus>>]_vars

(* C28: on the Home page a fetch that is processed raises a notification   *)
(* for a request exactly when the status it returns differs from the one   *)
(* recorded by the fetch processed before and is accepted, in_progress,    *)
(* completed or cancelled; a request seen for the first time raises none;  *)
(* the status recorded is the one the fetch returned                       *)
Notifying == {"accepted", "in_progress", "completed", "cancelled"}

StatusChanged ==
    {i \in 1..Len(serverRequests) :
        /\ i \in DOMAIN previousStatusesRef
        /\ previousStatusesRef[i] # serverRequests[i]
        /\ serverRequests[i] \in Notifying}

FetchProcessed ==
    /\ page = "Home"
    /\ page' = "Home"
    /\ <<toasts, previousStatusesRef, requests>>'
         # <<toasts, previousStatusesRef, requests>>

C28_StatusNotifications ==
    [][FetchProcessed =>
         /\ Len(toasts') = Cardinality(StatusChanged)
         /\ \A i \in StatusChanged :
              statusMessages[serverRequests[i]] \in Range(toasts')
         /\ previousStatusesRef' = serverRequests
         /\ \A i \in 1..Len(requests') :
              requests'[i].status = serverRequests[i]]_vars

(* a fetch has raised a notification *)
C28_Witness == page = "Home" /\ toasts # <<>>

(* C29: a create call is issued only with an issue and a location that are *)
(* not empty after trimming; a submit that is accepted issues exactly one  *)
(* create call, the multipart one if and only if the form holds at least   *)
(* one attachment                                                          *)
C29_OneCreatePerSubmit ==
    [][/\ (lastCall' # NULL /\ lastCall'[1].method = "POST")
            => /\ trim(issue) # ""
               /\ trim(formLocation) # ""
               /\ lastCall'[1] = createWithMedia(mediaFiles)
                    <=> Len(mediaFiles) > 0
               /\ lastCall'[1] = create <=> Len(mediaFiles) = 0
       /\ (formLoading' /\ ~formLoading)
            => /\ lastCall' # NULL
               /\ lastCall'[1].method = "POST"
               /\ apiOpen' = apiOpen \cup {lastCall'[1]}
               /\ Cardinality(apiOpen') = Cardinality(apiOpen) + 1]_vars

(* C30: formatPhone is idempotent, formatPhone(formatPhone(x)) =           *)
(* formatPhone(x) for the number in the phone field whatever it is, and    *)
(* the formatted number that handleSendOtp stored into the field is the    *)
(* number sent when the OTP is requested again                             *)
C30_FormatPhoneIdempotent ==
    [][/\ formatPhone(formatPhone(loginPhone')) = formatPhone(loginPhone')
       /\ (lastOtp' # NULL /\ stored # NULL)
            => /\ lastOtp'[1] = stored[1]
               /\ lastOtp'[1] = loginPhone]_vars

(* the OTP is requested again for the number handleSendOtp stored *)
C30_Witness == lastOtp # NULL /\ stored # NULL /\ step = "phone"

====
